---- MODULE Spec2Model ----
(***************************************************************************)
(* Model of the test scripts under src/testsprite_tests.                   *)
(*                                                                         *)
(* Every script is one Scenario: a test function whose statements run in   *)
(* program order inside a try block, followed by a finally block and the   *)
(* exit of the Python process.  A Step is one commented block of the       *)
(* script: an HTTP call together with the expectations checked on its      *)
(* response, a further assertion on the decoded body, a browser action or  *)
(* a load-state wait.  The target system is external: every response and   *)
(* every outcome of a browser call is an input chosen by the environment.  *)
(*                                                                         *)
(* The scripts keep no list of outcomes; `outcome` and `order` record what *)
(* the execution did (which statement ran, whether it raised) so that      *)
(* properties of the run can be stated.  A Step is Skipped when the run    *)
(* has left the try block without ever executing it.                       *)
(***************************************************************************)
EXTENDS Integers, Sequences, FiniteSets, TLC

\* ------------------------------------------------------------------ bounds
\* page.frames holds the main frame plus the iframes of the page
MaxFrames == 2

\* two executions of scripts, each by its own Python process
Runs == {"r1", "r2"}

\* ------------------------------------------------------- program constants
DefaultLimit == 20
TIMEOUT == 30

\* ---------------------------------------------------------------- scripts
ApiScripts ==
    {"TC001", "TC002_create", "TC003_get", "TC004", "TC005_get", "TC006",
     "TC007_pipeline", "TC008_get", "TC009", "TC010"}

UiScripts ==
    {"TC002_Manual", "TC003_Proposal", "TC005_Submission", "TC007_Portal",
     "TC008_Document"}

Scripts == ApiScripts \cup UiScripts

Step(op, kind, fatal) == [op |-> op, kind |-> kind, fatal |-> fatal]

Rep(n, s) == [i \in 1..n |-> s]

\* number of click / fill / goto / wheel statements between the frame waits
\* and the final assertions
NumActions(sc) ==
    CASE sc = "TC002_Manual"     -> 11
      [] sc = "TC003_Proposal"   -> 45
      [] sc = "TC005_Submission" -> 13
      [] sc = "TC007_Portal"     -> 9
      [] sc = "TC008_Document"   -> 9

\* number of expect(...) statements under "Assertions to verify final state"
NumExpects(sc) == IF sc = "TC002_Manual" THEN 8 ELSE 1

\* The part every UI script shares: start the driver, launch the browser,
\* open a context and a page, navigate; then the two kinds of load-state
\* wait, whose playwright Error is caught and dropped (except ...: pass).
UiPrelude ==
    << Step("start_pw",    "UiAction", TRUE),
       Step("launch",      "UiAction", TRUE),
       Step("new_context", "UiAction", TRUE),
       Step("new_page",    "UiAction", TRUE),
       Step("goto",        "UiAction", TRUE),
       Step("wait_main",   "Wait",     FALSE) >>

UiSteps(sc, nf) ==
    UiPrelude
      \o Rep(nf, Step("wait_frame", "Wait", FALSE))
      \o Rep(NumActions(sc), Step("action", "UiAction", TRUE))
      \o Rep(NumExpects(sc), Step("expect", "Assertion", TRUE))

\* The API scripts.  An HttpCall Step is the request with the checks on
\* status and format that follow it; an Assertion Step checks the content
\* of the decoded body.  Every failing statement raises out of the try block.
ApiSteps(sc) ==
    CASE sc = "TC001" ->
           << Step("get_rfps", "HttpCall", TRUE),
              Step("assert_len", "Assertion", TRUE),
              Step("assert_items", "Assertion", TRUE) >>
      [] sc = "TC002_create" ->
           << Step("post_rfp", "HttpCall", TRUE) >>
      [] sc = "TC003_get" ->
           << Step("create_rfp", "HttpCall", TRUE),
              Step("get_rfp", "HttpCall", TRUE),
              Step("get_missing", "HttpCall", TRUE) >>
      [] sc = "TC004" ->
           << Step("post_rfp", "HttpCall", TRUE),
              Step("get_docs", "HttpCall", TRUE) >>
      [] sc = "TC005_get" ->
           << Step("get_detailed", "HttpCall", TRUE),
              Step("assert_items", "Assertion", TRUE) >>
      [] sc = "TC006" ->
           << Step("post_rfp", "HttpCall", TRUE),
              Step("get_or_create_profile", "HttpCall", TRUE),
              Step("generate", "HttpCall", TRUE) >>
      [] sc = "TC007_pipeline" ->
           << Step("post_pipeline", "HttpCall", TRUE),
              Step("assert_started", "Assertion", TRUE) >>
      [] sc = "TC008_get" ->
           << Step("get_portals", "HttpCall", TRUE),
              Step("assert_items", "Assertion", TRUE) >>
      [] sc = "TC009" ->
           << Step("post_discovery", "HttpCall", TRUE) >>
      [] sc = "TC010" ->
           << Step("get_health", "HttpCall", TRUE),
              Step("assert_message", "Assertion", TRUE) >>

StepsOf(sc, nf) == IF sc \in UiScripts THEN UiSteps(sc, nf) ELSE ApiSteps(sc)

\* ------------------------------------------------- the target's responses
\* What a requests call can give back: an exception of the transport
\* (err), or a response with a status code and a body.  The body is kept
\* as the features the scripts look at:
\*   fmt    whether response.json() fails ("nonjson") or yields a list/dict
\*   id     the "id" entry: "absent", "empty" (present but falsy) or an id
\*   idStr  whether that entry is a str
\*   len    the length of a list body
\*   good   whether the content meets the script's content expectation
\*          (filters match, portal keys present, health text, session id,
\*          non-empty text of a non-JSON body, first list item is a dict)
RealIds == {"a", "b"}

IdVals == {"absent", "empty"} \cup RealIds

Codes == {200, 201, 404, 500}

Resp(err, status, fmt, id, idStr, len, good) ==
    [err |-> err, status |-> status, fmt |-> fmt, id |-> id,
     idStr |-> idStr, len |-> len, good |-> good]

NoResp == Resp("none", 0, "nonjson", "absent", TRUE, 0, FALSE)

\* what a browser call gave: it returned, or it raised
UiResult(ok) ==
    Resp(IF ok THEN "none" ELSE "raised", 0, "nonjson", "absent", TRUE, 0,
         FALSE)

ErrResps ==
    {Resp(e, 0, "nonjson", "absent", TRUE, 0, FALSE) :
        e \in {"Timeout", "ConnectionError"}}

\* the responses of one call: every status code with a non-JSON body, a
\* dict body or a list body, the features ranging over the given sets
Bodies(ids, idStrs, lens, listGoods, dictGoods, textGoods) ==
    ErrResps
      \cup {Resp("none", s, "nonjson", "absent", TRUE, 0, g) :
              s \in Codes, g \in textGoods}
      \cup {Resp("none", s, "dict", i, t, 0, g) :
              s \in Codes, i \in ids, t \in idStrs, g \in dictGoods}
      \cup {Resp("none", s, "list", i, TRUE, n, g) :
              s \in Codes, i \in ids, n \in lens, g \in listGoods}

Plain == {FALSE}

Responses(sc, op, sub) ==
    CASE op = "get_rfps" ->
           Bodies({"absent"}, {TRUE}, {0, DefaultLimit, DefaultLimit + 1},
                  BOOLEAN, Plain, Plain)
      [] op \in {"get_detailed", "get_portals"} ->
           Bodies({"absent"}, {TRUE}, {0, 1}, BOOLEAN, Plain, Plain)
      [] op = "get_docs" ->
           Bodies({"absent"}, {TRUE}, {0, 1}, Plain, Plain, Plain)
      [] op = "get_health" ->
           Bodies({"absent"}, {TRUE}, {0}, Plain, BOOLEAN, Plain)
      [] op = "post_pipeline" ->
           Bodies({"absent"}, {TRUE}, {0}, Plain, BOOLEAN, BOOLEAN)
      [] op \in {"post_discovery", "get_missing"} ->
           Bodies({"absent"}, {TRUE}, {0}, Plain, Plain, Plain)
      [] op = "post_rfp" /\ sc = "TC002_create" ->
           Bodies(IdVals, BOOLEAN, {0}, Plain, Plain, Plain)
      [] op \in {"post_rfp", "create_rfp", "get_rfp"} ->
           Bodies(IdVals, {TRUE}, {0}, Plain, Plain, Plain)
      [] op = "get_or_create_profile" /\ sub = 1 ->
           Bodies(IdVals, {TRUE}, {0, 1}, BOOLEAN, Plain, Plain)
      [] op = "get_or_create_profile" /\ sub = 2 ->
           Bodies(IdVals, {TRUE}, {0}, Plain, Plain, Plain)
      [] op = "generate" ->
           Bodies({"absent"}, {TRUE}, {0}, Plain, BOOLEAN, Plain)

\* ------------------------------------------------------------ verdicts
\* The result of the statements of a Step: exn = "" when none of them
\* raised, else the class of the exception that leaves the try block and
\* the message (or kind) it carries.
Pass == [exn |-> "", detail |-> "", code |-> 0]

\* an exception whose message names no status code
Raise(exn, detail) == [exn |-> exn, detail |-> detail, code |-> 0]

\* an exception whose message holds the status code of the response
\* (f"... got {response.status_code}", or the text of an HTTPError)
RaiseStatus(exn, detail, code) ==
    [exn |-> exn, detail |-> detail, code |-> code]

\* requests.<verb>(...) raised and no except clause of the script matches
Transport(resp) == Raise(resp.err, "transport")

\* the value a local gets from body["id"] / body.get("id")
IdValue(resp) == IF resp.id = "absent" THEN "None" ELSE resp.id

Truthy(v) == v \notin {"None", "empty", "absent"}

\* (mutant) raise_for_status raising for server errors only
IsErrorStatus_5xx(status) == status >= 500

\* response.raise_for_status() raises HTTPError for a 4xx / 5xx status
IsErrorStatus(status) == status >= 400

\* TC001, TC005 (detailed), TC010: the call and raise_for_status sit in one
\* try block whose except RequestException turns both kinds of failure
\* into `assert False, "Request failed ..."`.
EvalChecked(resp, wantList) ==
    IF resp.err # "none" THEN Raise("AssertionError", "Request failed")
    ELSE IF IsErrorStatus(resp.status)
         THEN RaiseStatus("AssertionError", "Request failed", resp.status)
    ELSE IF resp.status # 200
         THEN RaiseStatus("AssertionError", "status code", resp.status)
    ELSE IF resp.fmt = "nonjson" THEN Raise("AssertionError", "not valid JSON")
    ELSE IF wantList /\ resp.fmt # "list"
         THEN Raise("AssertionError", "not a list")
    ELSE Pass

\* TC008: only the call is inside the try block
EvalPortals(resp) ==
    IF resp.err # "none" THEN Raise("AssertionError", "Request failed")
    ELSE IF resp.status # 200
         THEN RaiseStatus("AssertionError", "status code", resp.status)
    ELSE IF resp.fmt = "nonjson" THEN Raise("AssertionError", "not valid JSON")
    ELSE IF resp.fmt # "list" THEN Raise("AssertionError", "not a list")
    ELSE Pass

\* TC009: the call and the status assertion are inside the try block; the
\* except clause matches RequestException only
EvalDiscovery(resp) ==
    IF resp.err # "none" THEN Raise("AssertionError", "Request failed")
    ELSE IF resp.status # 201
         THEN RaiseStatus("AssertionError", "status code", resp.status)
    ELSE Pass

\* (mutant) except requests.Timeout: pass
EvalPipeline_pass(resp) ==
    IF resp.err = "Timeout" THEN Pass
    ELSE IF resp.err # "none" THEN Raise("AssertionError", "Request failed")
    ELSE IF resp.status # 200
         THEN RaiseStatus("AssertionError", "status code", resp.status)
    ELSE Pass

\* TC007 (pipeline): requests.Timeout has its own except clause
EvalPipeline(resp) ==
    IF resp.err = "Timeout" THEN Raise("AssertionError", "Request timed out")
    ELSE IF resp.err # "none" THEN Raise("AssertionError", "Request failed")
    ELSE IF resp.status # 200
         THEN RaiseStatus("AssertionError", "status code", resp.status)
    ELSE Pass

\* TC002 (create): no except clause at all
EvalCreateStrict(resp) ==
    IF resp.err # "none" THEN Transport(resp)
    ELSE IF resp.status # 201
         THEN RaiseStatus("AssertionError", "status code", resp.status)
    ELSE IF resp.fmt = "nonjson" THEN Raise("JSONDecodeError", "not valid JSON")
    ELSE IF resp.fmt = "list" \/ resp.id = "absent" \/ ~resp.idStr
                             \/ ~Truthy(resp.id)
         THEN Raise("AssertionError", "no valid id")
    ELSE Pass

\* TC003 create_rfp(): raise_for_status outside any try, then the
\* assertions on 201 and on the presence of "id", written without a
\* message
EvalCreateRfp(resp) ==
    IF resp.err # "none" THEN Transport(resp)
    ELSE IF IsErrorStatus(resp.status)
         THEN RaiseStatus("HTTPError", "status code", resp.status)
    ELSE IF resp.status # 201 THEN Raise("AssertionError", "")
    ELSE IF resp.fmt = "nonjson" THEN Raise("JSONDecodeError", "not valid JSON")
    ELSE IF resp.fmt = "list" \/ resp.id = "absent"
         THEN Raise("AssertionError", "")
    ELSE Pass

\* TC004: assert 201, decode, assert "id" in rfp_data
EvalPostRfp4(resp) ==
    IF resp.err # "none" THEN Transport(resp)
    ELSE IF resp.status # 201
         THEN RaiseStatus("AssertionError", "status code", resp.status)
    ELSE IF resp.fmt = "nonjson" THEN Raise("JSONDecodeError", "not valid JSON")
    ELSE IF resp.fmt = "list" \/ resp.id = "absent"
         THEN Raise("AssertionError", "missing id")
    ELSE Pass

\* TC006 and the profile creation of TC006: assert 201 (the message holds
\* response.text, not the status code), decode, x = body.get("id"),
\* assert x
EvalPostGetId(resp) ==
    IF resp.err # "none" THEN Transport(resp)
    ELSE IF resp.status # 201 THEN Raise("AssertionError", "response text")
    ELSE IF resp.fmt = "nonjson" THEN Raise("JSONDecodeError", "not valid JSON")
    ELSE IF resp.fmt = "list" THEN Raise("AttributeError", "no get")
    ELSE IF ~Truthy(resp.id) THEN Raise("AssertionError", "missing id")
    ELSE Pass

\* (mutant) the assertion on the id of the body left out
EvalGetRfp_anyid(resp, rfp_id) ==
    IF resp.err # "none" THEN Transport(resp)
    ELSE IF resp.status # 200 THEN Raise("AssertionError", "")
    ELSE IF resp.fmt = "nonjson" THEN Raise("JSONDecodeError", "not valid JSON")
    ELSE IF resp.fmt # "dict" THEN Raise("AssertionError", "")
    ELSE Pass

\* TC003: GET by the created id: 200, a dict, and the same id in it; the
\* assert statements have no message
EvalGetRfp(resp, rfp_id) ==
    IF resp.err # "none" THEN Transport(resp)
    ELSE IF resp.status # 200 THEN Raise("AssertionError", "")
    ELSE IF resp.fmt = "nonjson" THEN Raise("JSONDecodeError", "not valid JSON")
    ELSE IF resp.fmt # "dict" THEN Raise("AssertionError", "")
    ELSE IF IdValue(resp) # rfp_id THEN Raise("AssertionError", "")
    ELSE Pass

\* (mutant) any error status accepted: assert status_code >= 400
EvalGetMissing_anyerror(resp) ==
    IF resp.err # "none" THEN Transport(resp)
    ELSE IF resp.status < 400 THEN Raise("AssertionError", "")
    ELSE Pass

\* TC003: GET of an id that does not exist
EvalGetMissing(resp) ==
    IF resp.err # "none" THEN Transport(resp)
    ELSE IF resp.status # 404 THEN Raise("AssertionError", "")
    ELSE Pass

\* TC004: the documents of the created RFP
EvalGetDocs(resp) ==
    IF resp.err # "none" THEN Transport(resp)
    ELSE IF resp.status # 200
         THEN RaiseStatus("AssertionError", "status code", resp.status)
    ELSE IF resp.fmt = "nonjson" THEN Raise("JSONDecodeError", "not valid JSON")
    ELSE IF resp.fmt # "list" THEN Raise("AssertionError", "not a list")
    ELSE Pass

\* TC006 step 2, the listing: the first profile's id is taken when the
\* list is not empty; anything else leads to the creation of a profile
ProfileListed(resp) == resp.fmt = "list" /\ resp.len > 0

EvalListProfiles(resp) ==
    IF resp.err # "none" THEN Transport(resp)
    ELSE IF resp.status # 200 THEN Raise("AssertionError", "response text")
    ELSE IF resp.fmt = "nonjson" THEN Raise("JSONDecodeError", "not valid JSON")
    ELSE IF ProfileListed(resp) /\ ~resp.good
         THEN Raise("AttributeError", "no get")
    ELSE Pass

\* TC006 step 3: 200, decode, a non-empty str session id
EvalGenerate(resp) ==
    IF resp.err # "none" THEN Transport(resp)
    ELSE IF resp.status # 200 THEN Raise("AssertionError", "response text")
    ELSE IF resp.fmt = "nonjson" THEN Raise("JSONDecodeError", "not valid JSON")
    ELSE IF resp.fmt = "list" THEN Raise("AttributeError", "no get")
    ELSE IF ~resp.good THEN Raise("AssertionError", "no session id")
    ELSE Pass

\* the verdict of an HttpCall Step on the response of its request number
\* `sub`; c is the record of the script's locals
HttpEval(sc, op, sub, resp, c) ==
    CASE op = "get_rfps"       -> EvalChecked(resp, TRUE)
      [] op = "get_detailed"   -> EvalChecked(resp, TRUE)
      [] op = "get_health"     -> EvalChecked(resp, FALSE)
      [] op = "get_portals"    -> EvalPortals(resp)
      [] op = "post_discovery" -> EvalDiscovery(resp)
      [] op = "post_pipeline"  -> EvalPipeline(resp)
      [] op = "create_rfp"     -> EvalCreateRfp(resp)
      [] op = "get_rfp"        -> EvalGetRfp(resp, c.rfp_id)
      [] op = "get_missing"    -> EvalGetMissing(resp)
      [] op = "get_docs"       -> EvalGetDocs(resp)
      [] op = "generate"       -> EvalGenerate(resp)
      [] op = "post_rfp" /\ sc = "TC002_create" -> EvalCreateStrict(resp)
      [] op = "post_rfp" /\ sc = "TC004"        -> EvalPostRfp4(resp)
      [] op = "post_rfp" /\ sc = "TC006"        -> EvalPostGetId(resp)
      [] op = "get_or_create_profile" /\ sub = 1 -> EvalListProfiles(resp)
      [] op = "get_or_create_profile" /\ sub = 2 -> EvalPostGetId(resp)

\* whether the Step goes on to a second request (TC006: no profile listed)
NeedsMore(op, sub, resp) ==
    /\ op = "get_or_create_profile"
    /\ sub = 1
    /\ EvalListProfiles(resp) = Pass
    /\ ~ProfileListed(resp)

\* (mutant) the limit compared with < instead of <=
AssertEval_strict(sc, op, resp) ==
    CASE op = "assert_len" ->
           IF resp.len < DefaultLimit THEN Pass
           ELSE Raise("AssertionError", "more than default limit")
      [] op = "assert_items" ->
           IF resp.len = 0 \/ resp.good THEN Pass
           ELSE Raise("AssertionError", "item mismatch")
      [] op = "assert_message" ->
           IF resp.fmt # "dict" THEN Raise("AttributeError", "no get")
           ELSE IF resp.good THEN Pass
           ELSE Raise("AssertionError", "not healthy")
      [] op = "assert_started" ->
           IF resp.fmt = "nonjson"
           THEN IF resp.good THEN Pass
                ELSE Raise("AssertionError", "empty body")
           ELSE IF resp.fmt # "dict"
           THEN Raise("AssertionError", "not an object")
           ELSE IF resp.good THEN Pass
           ELSE Raise("AssertionError", "not started")

\* the verdict of an Assertion Step of an API script on the last response
AssertEval(sc, op, resp) ==
    CASE op = "assert_len" ->
           IF resp.len <= DefaultLimit THEN Pass
           ELSE Raise("AssertionError", "more than default limit")
      [] op = "assert_items" ->
           IF resp.len = 0 \/ resp.good THEN Pass
           ELSE Raise("AssertionError", "item mismatch")
      [] op = "assert_message" ->
           IF resp.fmt # "dict" THEN Raise("AttributeError", "no get")
           ELSE IF resp.good THEN Pass
           ELSE Raise("AssertionError", "not healthy")
      [] op = "assert_started" ->
           IF resp.fmt = "nonjson"
           THEN IF resp.good THEN Pass
                ELSE Raise("AssertionError", "empty body")
           ELSE IF resp.fmt # "dict"
           THEN Raise("AssertionError", "not an object")
           ELSE IF resp.good THEN Pass
           ELSE Raise("AssertionError", "not started")

\* ------------------------------------------------------------- requests
Req(method, path, id, id2) ==
    [method |-> method, path |-> path, id |-> id, id2 |-> id2]

\* the request number `sub` of an HttpCall Step, built from the locals c
RequestOf(op, sub, c) ==
    CASE op = "get_rfps"       -> Req("GET", "/api/rfps", "None", "None")
      [] op = "get_detailed"   -> Req("GET", "/api/rfps/detailed", "None", "None")
      [] op = "get_health"     -> Req("GET", "/api/health", "None", "None")
      [] op = "get_portals"    -> Req("GET", "/api/portals", "None", "None")
      [] op = "post_discovery" -> Req("POST", "/api/discovery", "None", "None")
      [] op = "post_pipeline"  ->
           Req("POST", "/api/proposals/pipeline/generate", "None", "None")
      [] op \in {"post_rfp", "create_rfp"} ->
           Req("POST", "/api/rfps", "None", "None")
      [] op = "get_rfp"        -> Req("GET", "/api/rfps/{id}", c.rfp_id, "None")
      [] op = "get_missing"    ->
           Req("GET", "/api/rfps/{id}", "nonexistent", "None")
      [] op = "get_docs"       ->
           Req("GET", "/api/rfps/{id}/documents", c.rfp_id, "None")
      [] op = "get_or_create_profile" /\ sub = 1 ->
           Req("GET", "/api/company", "None", "None")
      [] op = "get_or_create_profile" /\ sub = 2 ->
           Req("POST", "/api/company", "None", "None")
      [] op = "generate"       ->
           Req("POST", "/api/proposals/enhanced/generate", c.rfp_id,
               IF Truthy(c.company_profile_id) THEN c.company_profile_id
               ELSE "None")

\* --------------------------------------------------------------- locals
\* A browser-side object, named by the run that created it
Handle(r, kind) == [owner |-> r, kind |-> kind]

NoHandle == [owner |-> "", kind |-> ""]

\* the locals as the first lines of the test function bind them
EmptyCtx ==
    [rfp_id |-> "None", company_profile_id |-> "None",
     new_profile_payload |-> FALSE,
     pw |-> NoHandle, browser |-> NoHandle, context |-> NoHandle]

\* (mutant) the value of the response is never bound to the local
CtxAfterHttp_lost(sc, op, sub, resp, c) == c

\* the locals after the statements of an HttpCall Step have run on resp,
\* up to the statement that raised
CtxAfterHttp(sc, op, sub, resp, c) ==
    CASE op = "create_rfp" /\ EvalCreateRfp(resp) = Pass ->
           [c EXCEPT !.rfp_id = IdValue(resp)]
      [] op = "post_rfp" /\ sc = "TC004" /\ EvalPostRfp4(resp) = Pass ->
           [c EXCEPT !.rfp_id = IdValue(resp)]
      [] op = "post_rfp" /\ sc = "TC006" /\ resp.err = "none"
            /\ resp.status = 201 /\ resp.fmt = "dict" ->
           [c EXCEPT !.rfp_id = IdValue(resp)]
      [] op = "get_or_create_profile" /\ sub = 1
            /\ EvalListProfiles(resp) = Pass /\ ProfileListed(resp) ->
           [c EXCEPT !.company_profile_id = IdValue(resp)]
      [] op = "get_or_create_profile" /\ sub = 1 /\ NeedsMore(op, sub, resp) ->
           [c EXCEPT !.new_profile_payload = TRUE]
      [] op = "get_or_create_profile" /\ sub = 2 /\ resp.err = "none"
            /\ resp.status = 201 /\ resp.fmt = "dict" ->
           [c EXCEPT !.company_profile_id = IdValue(resp)]
      [] OTHER -> c

\* the local a browser Step binds when its call returns
BoundBy(op) ==
    CASE op = "start_pw"    -> "pw"
      [] op = "launch"      -> "browser"
      [] op = "new_context" -> "context"
      [] OTHER              -> ""

\* ------------------------------------------------------------- teardown
\* The statements of the finally block, in program order.  Each is guarded
\* by the truth value of a local.
Fin(var, op) == [var |-> var, op |-> op]

\* (mutant) the browser objects closed in the order they were created
TeardownOf_forward(sc) ==
    CASE sc \in UiScripts ->
           << Fin("pw", "stop"), Fin("browser", "close"),
              Fin("context", "close") >>
      [] sc = "TC003_get" -> << Fin("rfp_id", "delete_rfp_placeholder") >>
      [] sc = "TC004"     -> << Fin("rfp_id", "delete_rfp") >>
      [] sc = "TC006"     ->
           << Fin("rfp_id", "delete_rfp"),
              Fin("company_profile_id", "delete_profile") >>
      [] OTHER -> << >>

TeardownOf(sc) ==
    CASE sc \in UiScripts ->
           << Fin("context", "close"), Fin("browser", "close"),
              Fin("pw", "stop") >>
      [] sc = "TC003_get" -> << Fin("rfp_id", "delete_rfp_placeholder") >>
      [] sc = "TC004"     -> << Fin("rfp_id", "delete_rfp") >>
      [] sc = "TC006"     ->
           << Fin("rfp_id", "delete_rfp"),
              Fin("company_profile_id", "delete_profile") >>
      [] OTHER -> << >>

\* ---------------------------------------------------------------- state
VARIABLES
    scen,      \* the script each run executes ("none": the slot is unused)
    nframes,   \* len(page.frames) of the page the run opens
    phase,     \* "ready", "body", "inflight", "finally", "exit", "done", "off"
    pc,        \* index of the Step the try block is at
    sub,       \* number of the request the Step in flight waits for
    tpc,       \* index of the next statement of the finally block
    ctx,       \* the locals of the test function
    exc,       \* the exception propagating out of the function ("none")
    exitCode,  \* exit status of the process (-1 while it runs)
    order,     \* indices of the Steps begun, in the order they began
    outcome,   \* one record per finished Step, in the order they finished
    sent,      \* the requests issued
    recv,      \* what each call gave: a response, or that it raised
    caught,    \* finally statements whose exception an except clause dropped
    open       \* browser-side objects (driver, browser, context) not closed

vars ==
    << scen, nframes, phase, pc, sub, tpc, ctx, exc, exitCode, order, outcome,
       sent, recv, caught, open >>

Active == {r \in Runs : scen[r] # "none"}

Steps(r) == StepsOf(scen[r], nframes[r])

NumSteps(r) == Len(Steps(r))

CurStep(r) == Steps(r)[pc[r]]

\* response, data: the locals holding what the last call returned
LastResp(r) == IF Len(recv[r]) = 0 THEN NoResp ELSE recv[r][Len(recv[r])]

\* the state after the functions have been defined and before
\* test_...() / asyncio.run(run_test()) is called
InitOf(S1, S2) ==
    /\ scen \in {f \in [Runs -> Scripts \cup {"none"}] :
                    f["r1"] \in S1 /\ f["r2"] \in S2}
    /\ nframes \in {f \in [Runs -> 0..MaxFrames] :
                    \A r \in Runs : (f[r] = 0) <=> (scen[r] \notin UiScripts)}
    /\ phase = [r \in Runs |-> IF scen[r] = "none" THEN "off" ELSE "ready"]
    /\ pc = [r \in Runs |-> 1]
    /\ sub = [r \in Runs |-> 0]
    /\ tpc = [r \in Runs |-> 1]
    /\ ctx = [r \in Runs |-> EmptyCtx]
    /\ exc = [r \in Runs |-> "none"]
    /\ exitCode = [r \in Runs |-> -1]
    /\ order = [r \in Runs |-> << >>]
    /\ outcome = [r \in Runs |-> << >>]
    /\ sent = [r \in Runs |-> << >>]
    /\ recv = [r \in Runs |-> << >>]
    /\ caught = [r \in Runs |-> {}]
    /\ open = {}

\* -------------------------------------------------------------- actions
\* (mutant) the variables kept at module level of one interpreter that
\* executes both runs
Store_shared(all, r, locals) == [q \in DOMAIN all |-> locals]

\* The locals live in the frame of the run's own call of the test
\* function: binding them changes the locals of that run only.
Store(all, r, locals) == [all EXCEPT ![r] = locals]

\* the function is entered: its first lines bind the locals to None
Start(r) ==
    /\ phase[r] = "ready"
    /\ phase' = [phase EXCEPT ![r] = "body"]
    /\ ctx' = Store(ctx, r, EmptyCtx)
    /\ UNCHANGED << scen, nframes, pc, sub, tpc, exc, exitCode, order,
                    outcome, sent, recv, caught, open >>

\* (mutant) a call that is not awaited: the next statement is reached
\* while the call is still in flight
CanBegin_overlap(r) == phase[r] \in {"body", "inflight"}

\* a statement is reached only when the one before it has returned
CanBegin(r) == phase[r] = "body"

\* (mutant) the try block sits in a loop that is entered again when an
\* exception leaves it
AfterBody_retry(sc) == "body"

\* where control goes when the try block is left
AfterBody(sc) == IF Len(TeardownOf(sc)) = 0 THEN "exit" ELSE "finally"

\* (mutant) every statement wrapped in try ... except: pass
Propagates_swallow(step, v) == FALSE

\* (mutant) the load-state waits without their try ... except
Propagates_all(step, v) == v # Pass

\* an exception of a Step leaves the try block unless the Step's own
\* except clause drops it (the load-state waits)
Propagates(step, v) == v # Pass /\ step.fatal

\* (mutant) the statement sits in a loop that runs it again
NextPc_again(i) == i

\* straight-line code: each statement is written once and is followed by
\* the next one
NextPc(i) == i + 1

\* the Step at pc[r] has finished with verdict v
Complete(r, v) ==
    LET step == CurStep(r) IN
    /\ outcome' = [outcome EXCEPT ![r] =
                      Append(@, [stepIndex |-> pc[r],
                                 status |-> IF v = Pass THEN "Passed"
                                            ELSE "Failed",
                                 exn |-> v.exn, detail |-> v.detail,
                                 code |-> v.code])]
    /\ IF Propagates(step, v)
       THEN /\ exc' = [exc EXCEPT ![r] = v.exn]
            /\ phase' = [phase EXCEPT ![r] = AfterBody(scen[r])]
            /\ pc' = pc
       ELSE /\ exc' = exc
            /\ pc' = [pc EXCEPT ![r] = NextPc(@)]
            /\ phase' = [phase EXCEPT ![r] =
                            IF NextPc(pc[r]) > NumSteps(r)
                            THEN AfterBody(scen[r])
                            ELSE "body"]
    /\ sub' = [sub EXCEPT ![r] = 0]

\* an HTTP call or a browser call is issued
Begin(r) ==
    /\ CanBegin(r)
    /\ pc[r] <= NumSteps(r)
    /\ scen[r] \in UiScripts \/ CurStep(r).kind = "HttpCall"
    /\ phase' = [phase EXCEPT ![r] = "inflight"]
    /\ sub' = [sub EXCEPT ![r] = 1]
    /\ order' = [order EXCEPT ![r] = Append(@, pc[r])]
    /\ sent' = IF CurStep(r).kind = "HttpCall"
               THEN [sent EXCEPT ![r] =
                        Append(@, RequestOf(CurStep(r).op, 1, ctx[r]))]
               ELSE sent
    /\ UNCHANGED << scen, nframes, pc, tpc, ctx, exc, exitCode, outcome,
                    recv, caught, open >>

\* the requests call returns or raises what the target gives (one of
\* `given`), and the statements up to the next call run on it
FinishHttpWith(r, given) ==
    /\ phase[r] = "inflight"
    /\ CurStep(r).kind = "HttpCall"
    /\ \E resp \in given :
         LET op == CurStep(r).op
             c2 == CtxAfterHttp(scen[r], op, sub[r], resp, ctx[r])
         IN
         /\ recv' = [recv EXCEPT ![r] = Append(@, resp)]
         /\ ctx' = Store(ctx, r, c2)
         /\ IF NeedsMore(op, sub[r], resp)
            THEN /\ sub' = [sub EXCEPT ![r] = 2]
                 /\ sent' = [sent EXCEPT ![r] = Append(@, RequestOf(op, 2, c2))]
                 /\ UNCHANGED << phase, pc, exc, outcome >>
            ELSE /\ Complete(r, HttpEval(scen[r], op, sub[r], resp, ctx[r]))
                 /\ sent' = sent
    /\ UNCHANGED << scen, nframes, tpc, exitCode, order, caught, open >>

FinishHttp(r) ==
    /\ phase[r] = "inflight"
    /\ CurStep(r).kind = "HttpCall"
    /\ FinishHttpWith(r, Responses(scen[r], CurStep(r).op, sub[r]))

\* what a browser call raises when it fails
UiFailure(op) ==
    IF op = "expect" THEN Raise("AssertionError", "not visible")
    ELSE Raise("Error", "playwright")

\* the browser call returns (ok, one of `given`) or raises
FinishUiWith(r, given) ==
    /\ phase[r] = "inflight"
    /\ scen[r] \in UiScripts
    /\ \E ok \in given :
         LET op == CurStep(r).op IN
         /\ Complete(r, IF ok THEN Pass ELSE UiFailure(op))
         /\ recv' = [recv EXCEPT ![r] = Append(@, UiResult(ok))]
         /\ IF ok /\ BoundBy(op) # ""
            THEN /\ ctx' = Store(ctx, r, [ctx[r] EXCEPT ![BoundBy(op)] =
                                             Handle(r, BoundBy(op))])
                 /\ open' = open \cup {Handle(r, BoundBy(op))}
            ELSE UNCHANGED << ctx, open >>
    /\ UNCHANGED << scen, nframes, tpc, exitCode, order, sent, caught >>

FinishUi(r) == FinishUiWith(r, BOOLEAN)

\* an assert statement on the decoded body of the last response
AssertStep(r) ==
    /\ CanBegin(r)
    /\ pc[r] <= NumSteps(r)
    /\ scen[r] \in ApiScripts
    /\ CurStep(r).kind = "Assertion"
    /\ order' = [order EXCEPT ![r] = Append(@, pc[r])]
    /\ Complete(r, AssertEval(scen[r], CurStep(r).op, LastResp(r)))
    /\ UNCHANGED << scen, nframes, tpc, ctx, exitCode, sent, recv, caught,
                    open >>

\* (mutant) the cleanup requests issued without looking at the local
Guard_always(st, c) ==
    CASE st.op \in {"close", "stop"} -> c[st.var] # NoHandle
      [] OTHER -> TRUE

\* (mutant) the profile deleted whenever its id is known
Guard_anyprofile(st, c) ==
    CASE st.op \in {"close", "stop"} -> c[st.var] # NoHandle
      [] st.op = "delete_profile" -> Truthy(c.company_profile_id)
      [] OTHER -> Truthy(c[st.var])

\* the `if <local>:` in front of a statement of the finally block
Guard(st, c) ==
    CASE st.op \in {"close", "stop"} -> c[st.var] # NoHandle
      [] st.op = "delete_profile" ->
           Truthy(c.company_profile_id) /\ c.new_profile_payload
      [] OTHER -> Truthy(c[st.var])

DeleteRequest(st, c) ==
    IF st.op = "delete_profile"
    THEN Req("DELETE", "/api/company/{id}", c.company_profile_id, "None")
    ELSE Req("DELETE", "/api/rfps/{id}", c.rfp_id, "None")

\* where control goes after statement number i of the finally block
AfterFin(sc, i) == IF i = Len(TeardownOf(sc)) THEN "exit" ELSE "finally"

\* (mutant) a return inside the finally block, which drops the exception
ExcAfterFin_return(e) == "none"

\* a finally block that runs to its end re-raises the exception that was
\* propagating when it was entered
ExcAfterFin(e) == e

\* the next statement of the finally block.  A close / stop that raises
\* leaves the block with that exception; a DELETE that raises is inside
\* try ... except Exception: pass.
Teardown(r) ==
    /\ phase[r] = "finally"
    /\ LET st == TeardownOf(scen[r])[tpc[r]]
           next == /\ tpc' = [tpc EXCEPT ![r] = @ + 1]
                   /\ phase' = [phase EXCEPT ![r] = AfterFin(scen[r], tpc[r])]
                   /\ exc' = [exc EXCEPT ![r] = ExcAfterFin(@)]
       IN
       IF ~Guard(st, ctx[r]) \/ st.op = "delete_rfp_placeholder"
       THEN next /\ UNCHANGED << sent, caught, open >>
       ELSE \E ok \in BOOLEAN :
              IF st.op \in {"close", "stop"}
              THEN /\ UNCHANGED << sent, caught >>
                   /\ IF ok
                      THEN /\ open' = open \ {ctx[r][st.var]}
                           /\ next
                      ELSE /\ open' = open
                           /\ exc' = [exc EXCEPT ![r] = "Error"]
                           /\ phase' = [phase EXCEPT ![r] = "exit"]
                           /\ tpc' = tpc
              ELSE /\ sent' = [sent EXCEPT ![r] =
                                  Append(@, DeleteRequest(st, ctx[r]))]
                   /\ caught' = IF ok THEN caught
                                ELSE [caught EXCEPT ![r] = @ \cup {tpc[r]}]
                   /\ open' = open
                   /\ next
    /\ UNCHANGED << scen, nframes, pc, sub, ctx, exitCode, order, outcome,
                    recv >>

\* (mutant) the failure is printed instead of raised
ExitStatus_zero(e) == 0

\* the exit status Python gives the process: 1 when an exception reaches
\* the top level of the module
ExitStatus(e) == IF e = "none" THEN 0 ELSE 1

\* the function returns or raises to the module's top level, its locals
\* are gone and the process ends
Exit(r) ==
    /\ phase[r] = "exit"
    /\ phase' = [phase EXCEPT ![r] = "done"]
    /\ exitCode' = [exitCode EXCEPT ![r] = ExitStatus(exc[r])]
    /\ ctx' = Store(ctx, r, EmptyCtx)
    /\ UNCHANGED << scen, nframes, pc, sub, tpc, exc, order, outcome, sent,
                    recv, caught, open >>

Next ==
    \E r \in Runs :
        \/ Start(r)
        \/ Begin(r)
        \/ FinishHttp(r)
        \/ FinishUi(r)
        \/ AssertStep(r)
        \/ Teardown(r)
        \/ Exit(r)

\* one script run by one process
Spec == InitOf(Scripts, {"none"}) /\ [][Next]_vars

\* the same, with the fairness of a running process: a statement that can
\* run does run (every call carries a timeout, so each returns or raises)
LiveSpec == Spec /\ WF_vars(Next)

\* (mutant) the import statement written inside the test function, after
\* its first statements
CanLoadFail_late(r) == phase[r] \in {"ready", "body"}

\* the import statements are the first lines of the module: they run
\* before the test function is called
CanLoadFail(r) == phase[r] = "ready"

\* an import of the module raises ImportError (requests or playwright is
\* not installed): the exception reaches the top level of the module and
\* the process ends before the test function is called
LoadFail(r) ==
    /\ CanLoadFail(r)
    /\ phase' = [phase EXCEPT ![r] = "done"]
    /\ exc' = [exc EXCEPT ![r] = "ImportError"]
    /\ exitCode' = [exitCode EXCEPT ![r] = ExitStatus("ImportError")]
    /\ UNCHANGED << scen, nframes, pc, sub, tpc, ctx, order, outcome, sent,
                    recv, caught, open >>

NextFault ==
    \E r \in Runs :
        \/ LoadFail(r)
        \/ Start(r)
        \/ Begin(r)
        \/ FinishHttp(r)
        \/ FinishUi(r)
        \/ AssertStep(r)
        \/ Teardown(r)
        \/ Exit(r)

\* one script executed, its imports included
SpecFault == InitOf(Scripts, {"none"}) /\ [][NextFault]_vars

\* Two scripts run at the same time, each by its own process, against the
\* same target; the pages have no iframe.
ParScripts1 == {"TC003_get", "TC002_Manual"}

ParScripts2 == {"TC004", "TC007_Portal", "TC010"}

InitPar ==
    /\ InitOf(ParScripts1, ParScripts2)
    /\ \A r \in Runs : nframes[r] <= 1

SpecPar == InitPar /\ [][Next]_vars

\* The same script run twice; the second run is given, call by call, what
\* the target gave the first run.
DetScripts == ApiScripts \cup {"TC007_Portal"}

InitDet ==
    /\ InitOf(DetScripts, DetScripts)
    /\ scen["r1"] = scen["r2"]
    /\ nframes["r1"] = nframes["r2"]

ReplayHttp(r, from) ==
    /\ phase[r] = "inflight"
    /\ CurStep(r).kind = "HttpCall"
    /\ Len(recv[from]) > Len(recv[r])
    /\ FinishHttpWith(r, {recv[from][Len(recv[r]) + 1]})

ReplayUi(r, from) ==
    /\ phase[r] = "inflight"
    /\ scen[r] \in UiScripts
    /\ Len(recv[from]) > Len(recv[r])
    /\ FinishUiWith(r, {recv[from][Len(recv[r]) + 1].err = "none"})

NextDet ==
    \/ Start("r1")
    \/ Begin("r1")
    \/ FinishHttp("r1")
    \/ FinishUi("r1")
    \/ AssertStep("r1")
    \/ Teardown("r1")
    \/ Exit("r1")
    \/ Start("r2")
    \/ Begin("r2")
    \/ ReplayHttp("r2", "r1")
    \/ ReplayUi("r2", "r1")
    \/ AssertStep("r2")
    \/ Teardown("r2")
    \/ Exit("r2")

SpecDet == InitDet /\ [][NextDet]_vars

\* -------------------------------------------------------- observations
\* the run has left the try block
Ended(r) == phase[r] \in {"finally", "exit", "done"}

Executed(r) == {order[r][k] : k \in 1..Len(order[r])}

\* the outcomes recorded for Step i
OutcomesOf(r, i) ==
    {k \in 1..Len(outcome[r]) : outcome[r][k].stepIndex = i}

HasStatus(r, i, st) == \E k \in OutcomesOf(r, i) : outcome[r][k].status = st

\* Step i was never executed and the run is past the try block
Skipped(r, i) == Ended(r) /\ i \notin Executed(r) /\ OutcomesOf(r, i) = {}

FatalFailed(r, i) == Steps(r)[i].fatal /\ HasStatus(r, i, "Failed")

\* the finally block was left by an exception of one of its statements
FinallyAborted(r) ==
    /\ phase[r] \in {"exit", "done"}
    /\ tpc[r] <= Len(TeardownOf(scen[r]))

\* the verdict of the run: whether the test function raised
OverallStatus(r) == IF exc[r] = "none" THEN "Passed" ELSE "Failed"

\* ------------------------------------------------------------- claims

\* C1: skip on fatal failure.  In every run that has left the try block,
\* either every Step was executed and has its own outcome, or there is a
\* Step that failed fatally, every Step before it was executed and has an
\* outcome, and no Step after it was ever executed (they are Skipped); and
\* at no time has a Step after a fatally failed one been executed.
C1_SkipOnFatalFailure ==
    \A r \in Active :
        /\ \A i \in 1..NumSteps(r) :
              FatalFailed(r, i) =>
                  \A j \in (i + 1)..NumSteps(r) : j \notin Executed(r)
        /\ Ended(r) =>
              \/ \A i \in 1..NumSteps(r) :
                    i \in Executed(r) /\ Cardinality(OutcomesOf(r, i)) = 1
              \/ \E i \in 1..NumSteps(r) :
                    /\ FatalFailed(r, i)
                    /\ \A j \in 1..i :
                          j \in Executed(r) /\ Cardinality(OutcomesOf(r, j)) = 1
                    /\ \A j \in (i + 1)..NumSteps(r) : Skipped(r, j)

\* a finished run stopped by a fatal failure with at least two Steps skipped
C1_Witness ==
    \E r \in Active :
        /\ phase[r] = "done"
        /\ \E i \in 1..NumSteps(r) :
              /\ FatalFailed(r, i)
              /\ i + 2 <= NumSteps(r)
              /\ \A j \in (i + 1)..NumSteps(r) : Skipped(r, j)

\* C2: declared order, no overlap.  The Steps begin in declared order
\* 1, 2, 3, ... without gaps or repeats, their outcomes are recorded in the
\* same order, and a Step has begun without an outcome only while it is
\* the one in flight: Step N+1 has not begun unless Step N has its outcome.
C2_DeclaredOrder ==
    \A r \in Active :
        /\ \A k \in 1..Len(order[r]) : order[r][k] = k
        /\ \A k \in 1..Len(outcome[r]) : outcome[r][k].stepIndex = k
        /\ Len(order[r]) - Len(outcome[r]) =
              IF phase[r] = "inflight" THEN 1 ELSE 0

\* the fourth Step is in flight and the three before it have outcomes
C2_Witness ==
    \E r \in Active :
        /\ phase[r] = "inflight"
        /\ Len(order[r]) = 4
        /\ Len(outcome[r]) = 3

\* C3 as stated: the run is Failed iff some Step has status Failed, fatal
\* or not.
C3_FailedIffAnyStepFailed ==
    \A r \in Active :
        phase[r] = "done" =>
            (OverallStatus(r) = "Failed"
                <=> \E i \in 1..NumSteps(r) : HasStatus(r, i, "Failed"))

\* C3 amended: the run is Failed iff a Step with fatalOnFailure failed or a
\* close / stop of the finally block raised; a failed non-fatal Step (a
\* load-state wait whose error is dropped) does not make the run Failed.
C3_FailedIffFatalFailed ==
    \A r \in Active :
        phase[r] = "done" =>
            (OverallStatus(r) = "Failed"
                <=> \/ \E i \in 1..NumSteps(r) : FatalFailed(r, i)
                    \/ FinallyAborted(r))

\* a finished run that Passed although a load-state wait Failed
C3_Witness ==
    \E r \in Active :
        /\ phase[r] = "done"
        /\ OverallStatus(r) = "Passed"
        /\ \E i \in 1..NumSteps(r) :
              ~Steps(r)[i].fatal /\ HasStatus(r, i, "Failed")

\* C4 as stated: no failure leaves a run as an uncaught exception.
C4_NothingEscapes ==
    \A r \in Active : Ended(r) => exc[r] = "none"

\* C4 amended: every run terminates, whatever fails; but a fatal Step
\* failure is not captured in a returned result: once the finally block
\* has run to its end or was left, an exception is propagating out of the
\* test function, and the process ends with it.
AllDone == \A r \in Active : phase[r] = "done"

C4_TerminatesAndEscapes ==
    /\ <>AllDone
    /\ [](\A r \in Active :
             (phase[r] \in {"exit", "done"}
                 /\ \E i \in 1..NumSteps(r) : FatalFailed(r, i))
             => exc[r] # "none")

\* a finished run whose failure left the function after the finally block
\* had run to its end
C4_Witness ==
    \E r \in Active :
        /\ phase[r] = "done"
        /\ Len(TeardownOf(scen[r])) > 0
        /\ ~FinallyAborted(r)
        /\ exc[r] = "AssertionError"
        /\ \E i \in 1..NumSteps(r) : FatalFailed(r, i)

\* the values a run has read from the bodies of its own responses
IdsReceived(r) == {IdValue(recv[r][k]) : k \in 1..Len(recv[r])}

UsesRfpId(req) ==
    /\ req.path \in {"/api/rfps/{id}", "/api/rfps/{id}/documents",
                     "/api/proposals/enhanced/generate"}
    /\ req.id # "nonexistent"

\* C6: context visibility.  The id bound from the response to the first
\* call (POST /api/rfps) is the id every later request of the same run
\* carries, in the try block and in the finally block; the company profile
\* id a generate request carries is the one bound from the response just
\* before it, and the profile a run deletes is the one its POST created.
C6_ContextVisible ==
    \A r \in Active :
        \A k \in 1..Len(sent[r]) :
            LET req == sent[r][k] IN
            /\ UsesRfpId(req) =>
                  /\ k > 1
                  /\ sent[r][1] = Req("POST", "/api/rfps", "None", "None")
                  /\ Len(recv[r]) >= 1
                  /\ req.id = IdValue(recv[r][1])
            /\ req.path = "/api/proposals/enhanced/generate" =>
                  req.id2 = IF Truthy(IdValue(recv[r][k - 1]))
                            THEN IdValue(recv[r][k - 1]) ELSE "None"
            /\ req.path = "/api/company/{id}" =>
                  /\ sent[r][3] = Req("POST", "/api/company", "None", "None")
                  /\ req.id = IdValue(recv[r][3])

\* a generate request sent with the RFP id of the first Step and the
\* profile id of the second, the two being different values
C6_Witness ==
    \E r \in Active :
        \E k \in 1..Len(sent[r]) :
            /\ sent[r][k].path = "/api/proposals/enhanced/generate"
            /\ sent[r][k].id \in RealIds
            /\ sent[r][k].id2 \in RealIds
            /\ sent[r][k].id # sent[r][k].id2

\* C7: isolation of two runs in progress at the same time.  A run's locals
\* hold only values the run itself read from its own responses and only
\* browser objects the run itself created; its requests carry only its own
\* ids; the locals are unbound when the run begins its first Step and are
\* gone when it is over.
C7_Isolation ==
    \A r \in Active :
        /\ ctx[r].rfp_id \in {"None"} \cup IdsReceived(r)
        /\ ctx[r].company_profile_id \in {"None"} \cup IdsReceived(r)
        /\ \A v \in {"pw", "browser", "context"} :
              ctx[r][v] \in {NoHandle, Handle(r, v)}
        /\ \A k \in 1..Len(sent[r]) :
              /\ sent[r][k].id \in {"None", "nonexistent"} \cup IdsReceived(r)
              /\ sent[r][k].id2 \in {"None"} \cup IdsReceived(r)
        /\ (phase[r] = "body" /\ order[r] = << >>) => ctx[r] = EmptyCtx
        /\ phase[r] = "done" => ctx[r] = EmptyCtx

\* both runs are inside their try blocks, each holding a different id, and
\* the first has sent a request that carries its own
C7_Witness ==
    /\ \A r \in Runs : phase[r] \in {"body", "inflight"}
    /\ ctx["r1"].rfp_id \in RealIds
    /\ ctx["r2"].rfp_id \in RealIds
    /\ ctx["r1"].rfp_id # ctx["r2"].rfp_id
    /\ Len(sent["r1"]) >= 2
    /\ sent["r1"][2].id = ctx["r1"].rfp_id

IsPrefix(s, t) ==
    /\ Len(s) <= Len(t)
    /\ \A k \in 1..Len(s) : s[k] = t[k]

\* C8: determinism.  Two runs of the same script that were given the same
\* sequence of results by the target record the same status for every Step
\* both have finished, and once both have left the try block they have
\* finished, and so skipped, the same Steps.
C8_Determinism ==
    (scen["r1"] = scen["r2"] /\ IsPrefix(recv["r2"], recv["r1"])) =>
        /\ \A k \in DOMAIN outcome["r1"] \cap DOMAIN outcome["r2"] :
              /\ outcome["r1"][k].stepIndex = outcome["r2"][k].stepIndex
              /\ outcome["r1"][k].status = outcome["r2"][k].status
        /\ (Ended("r1") /\ Ended("r2")) =>
              Len(outcome["r1"]) = Len(outcome["r2"])

\* both runs are over, were given the same results, passed a Step that
\* binds a local and failed the same later Step
C8_Witness ==
    /\ \A r \in Runs : phase[r] = "done"
    /\ recv["r1"] = recv["r2"]
    /\ Len(sent["r2"]) >= 2
    /\ sent["r2"][2].id \in RealIds
    /\ \E k \in 2..Len(outcome["r2"]) :
          /\ outcome["r1"][k].status = "Failed"
          /\ outcome["r2"][k].status = "Failed"
          /\ outcome["r2"][1].status = "Passed"

\* C9: every browser object a run acquired is released by the time the
\* run is over, on every exit path.
C9_AllReleased ==
    \A r \in Active :
        phase[r] = "done" => \A h \in open : h.owner # r

\* C10: the process of a script ends with exit code 0 when its run Passed
\* and with exit code 1 otherwise, and has no exit code before it ends.
C10_ExitCode ==
    \A r \in Active :
        IF phase[r] = "done"
        THEN /\ exitCode[r] \in {0, 1}
             /\ exitCode[r] = 0 <=> OverallStatus(r) = "Passed"
             /\ exitCode[r] = 1 <=>
                   \/ \E i \in 1..NumSteps(r) : FatalFailed(r, i)
                   \/ FinallyAborted(r)
        ELSE exitCode[r] = -1

\* the health check script ended with exit code 1 because the message of
\* the response named no healthy state
C10_Witness ==
    \E r \in Active :
        /\ scen[r] = "TC010"
        /\ phase[r] = "done"
        /\ exitCode[r] = 1
        /\ outcome[r][1].status = "Passed"
        /\ outcome[r][2].status = "Failed"

\* how many times Step i has been begun
AttemptsUsed(r, i) == Cardinality({k \in DOMAIN order[r] : order[r][k] = i})

\* C11: an assertion failure is never retried.  A Step whose attempt ended
\* with an AssertionError was begun exactly once, has that one outcome,
\* Failed, and nothing of the try block is executed after it: its outcome
\* is the last one recorded and the run has left the try block.
C11_AssertionNotRetried ==
    \A r \in Active :
        \A k \in DOMAIN outcome[r] :
            outcome[r][k].exn = "AssertionError" =>
                LET i == outcome[r][k].stepIndex IN
                /\ outcome[r][k].status = "Failed"
                /\ AttemptsUsed(r, i) = 1
                /\ Cardinality(OutcomesOf(r, i)) = 1
                /\ k = Len(outcome[r])
                /\ Len(order[r]) = Len(outcome[r])
                /\ Ended(r)

\* the submission pipeline script is over: its final expect(...) failed
\* on its first attempt and every Step before it passed
C11_Witness ==
    \E r \in Active :
        /\ scen[r] = "TC005_Submission"
        /\ phase[r] = "done"
        /\ Len(outcome[r]) = NumSteps(r)
        /\ outcome[r][NumSteps(r)].exn = "AssertionError"
        /\ AttemptsUsed(r, NumSteps(r)) = 1
        /\ \A k \in 1..(NumSteps(r) - 1) : outcome[r][k].status = "Passed"

\* the last call of run r timed out
TimedOut(r) ==
    /\ scen[r] \in ApiScripts
    /\ Len(recv[r]) > 0
    /\ recv[r][Len(recv[r])].err = "Timeout"

\* C12 as stated: the Step whose call timed out is Failed with the
\* errorDetail "timeout after <timeoutMs>ms" (TIMEOUT = 30 s).
C12_TimeoutDetail ==
    \A r \in Active :
        TimedOut(r) =>
            /\ Len(outcome[r]) > 0
            /\ outcome[r][Len(outcome[r])].status = "Failed"
            /\ outcome[r][Len(outcome[r])].detail = "timeout after 30000ms"

\* C12 amended: the Step whose call timed out is Failed, never Passed,
\* and it is the last Step of the run; its errorDetail is
\* the message of the exception the script raises: "Request timed out"
\* in the pipeline script, "Request failed" where RequestException is
\* caught, the Timeout exception itself where nothing catches it.  A
\* browser call that raised (a timeout included) is Failed as well.
C12_TimeoutFails ==
    \A r \in Active :
        /\ TimedOut(r) =>
              /\ Len(outcome[r]) > 0
              /\ Ended(r)
              /\ LET o == outcome[r][Len(outcome[r])] IN
                 /\ o.status = "Failed"
                 /\ Steps(r)[o.stepIndex].kind = "HttpCall"
                 /\ o.stepIndex = order[r][Len(order[r])]
                 /\ IF scen[r] = "TC007_pipeline"
                    THEN o.exn = "AssertionError"
                         /\ o.detail = "Request timed out"
                    ELSE \/ o.exn = "AssertionError"
                            /\ o.detail = "Request failed"
                         \/ o.exn = "Timeout" /\ o.detail = "transport"
        /\ scen[r] \in UiScripts =>
              \A k \in DOMAIN recv[r] :
                  recv[r][k].err = "raised" =>
                      /\ k \in DOMAIN outcome[r]
                      /\ outcome[r][k].status = "Failed"

\* the pipeline script is over after its request timed out
C12_Witness ==
    \E r \in Active :
        /\ scen[r] = "TC007_pipeline"
        /\ phase[r] = "done"
        /\ TimedOut(r)
        /\ outcome[r][1].detail = "Request timed out"

\* the Steps at which a process-level failure of run r showed: the first
\* request of an API script found no host, or the Playwright driver or the
\* browser of a UI script did not start
ProcessFailureAt(r) ==
    IF scen[r] \in ApiScripts
    THEN {k \in {1} : Len(recv[r]) >= 1 /\ recv[r][1].err = "ConnectionError"}
    ELSE {k \in DOMAIN recv[r] :
             /\ recv[r][k].err = "raised"
             /\ Steps(r)[k].op \in {"start_pw", "launch"}}

\* C13 as stated: a process-level failure is reported as a result whose
\* first Step is Failed, not as an uncaught error.
C13_ReportedNotRaised ==
    \A r \in Active :
        (phase[r] = "done" /\ ProcessFailureAt(r) # {}) =>
            /\ outcome[r][1].status = "Failed"
            /\ exc[r] = "none"

\* C13 amended: a process-level failure makes the Step that made the call
\* Failed (the first Step of an API script, the start or launch Step of a
\* UI script), every Step before it Passed, every later Step is Skipped
\* and the run is Failed; the failure is not returned in a result: it
\* leaves the test function as an uncaught exception and the process ends
\* with exit code 1.
C13_FailsAndRaises ==
    \A r \in Active :
        \A k \in ProcessFailureAt(r) :
            /\ Len(outcome[r]) = k
            /\ outcome[r][k].status = "Failed"
            /\ outcome[r][k].stepIndex = k
            /\ outcome[r][k].exn \in {"AssertionError", "ConnectionError",
                                      "Error"}
            /\ \A j \in 1..(k - 1) : outcome[r][j].status = "Passed"
            /\ Ended(r)
            /\ \A j \in (k + 1)..NumSteps(r) : Skipped(r, j)
            /\ exc[r] # "none"
            /\ phase[r] = "done" =>
                  OverallStatus(r) = "Failed" /\ exitCode[r] = 1

\* the browser of the manual-creation script did not launch: the script
\* is over, launch is its last outcome and the driver was stopped
C13_Witness ==
    \E r \in Active :
        /\ scen[r] = "TC002_Manual"
        /\ phase[r] = "done"
        /\ ProcessFailureAt(r) = {2}
        /\ exc[r] = "Error"
        /\ open = {}

\* the scripts that create an RFP and then read by the created id
CreateThenRead == {"TC003_get", "TC004"}

ListingAnswered(r) ==
    /\ scen[r] = "TC001"
    /\ phase[r] = "done"
    /\ recv[r][1].err = "none"
    /\ recv[r][1].status = 200
    /\ recv[r][1].fmt = "list"

\* C16 as stated: the listing run is Passed when the target returns at
\* most the default page size of items and Failed otherwise.
C16_PassedIffWithinLimit ==
    \A r \in Active :
        ListingAnswered(r) =>
            (OverallStatus(r) = "Passed" <=> recv[r][1].len <= DefaultLimit)

\* C16 amended: the listing run is Passed when the target returns at most
\* the default page size of items and every returned item is a dict with
\* the status and portalId of the filter; it is Failed otherwise, with
\* the length assertion Failed exactly when there are more items than
\* the default page size.
C16_PassedIffLimitAndItems ==
    \A r \in Active :
        ListingAnswered(r) =>
            /\ OverallStatus(r) = "Passed" <=>
                  /\ recv[r][1].len <= DefaultLimit
                  /\ (recv[r][1].len = 0 \/ recv[r][1].good)
            /\ outcome[r][1].status = "Passed"
            /\ outcome[r][2].status = "Passed" <=>
                  recv[r][1].len <= DefaultLimit
            /\ recv[r][1].len > DefaultLimit => Skipped(r, 3)

\* the listing script is over and Passed on exactly DefaultLimit items
C16_Witness ==
    \E r \in Active :
        /\ ListingAnswered(r)
        /\ recv[r][1].len = DefaultLimit
        /\ OverallStatus(r) = "Passed"
        /\ Len(outcome[r]) = 3

\* the outcomes of the Step of run r that reads an id that does not exist
MissingOutcomes(r) ==
    {k \in DOMAIN outcome[r] :
        Steps(r)[outcome[r][k].stepIndex].op = "get_missing"}

\* C17: non-existent identifier.  The Step that requests an id that does
\* not exist is Passed when the status of the response is exactly 404 and
\* Failed for every other status (200, 201 and 500 among them) and when
\* no response comes.
C17_Only404Passes ==
    \A r \in Active :
        \A k \in MissingOutcomes(r) :
            /\ k \in DOMAIN recv[r] /\ k \in DOMAIN sent[r]
            /\ sent[r][k] = Req("GET", "/api/rfps/{id}", "nonexistent", "None")
            /\ outcome[r][k].status = "Passed" <=>
                  (recv[r][k].err = "none" /\ recv[r][k].status = 404)
            /\ outcome[r][k].status = "Failed" <=>
                  (recv[r][k].err # "none" \/ recv[r][k].status # 404)

\* the request of an id that does not exist was answered 404 and Passed
C17_Witness ==
    \E r \in Active :
        \E k \in MissingOutcomes(r) :
            /\ recv[r][k].status = 404
            /\ outcome[r][k].status = "Passed"
            /\ phase[r] = "done"

\* the last outcome of run r is that of an HttpCall Step, decided on the
\* last response received
LastIsHttp(r) ==
    /\ scen[r] \in ApiScripts
    /\ Len(outcome[r]) > 0
    /\ Steps(r)[outcome[r][Len(outcome[r])].stepIndex].kind = "HttpCall"
    /\ ~(phase[r] = "inflight" /\ sub[r] = 2)

\* the response is an error response the Step does not ask for
UnexpectedError(op, resp) ==
    /\ resp.err = "none"
    /\ IsErrorStatus(resp.status)
    /\ ~(op = "get_missing" /\ resp.status = 404)

\* C19: a 4xx / 5xx response (other than the status the Step expects) is
\* surfaced as a Failed Step whose errorDetail carries the response code,
\* which tells it from an expectation mismatch.
C19_ErrorStatusCarried ==
    \A r \in Active :
        LastIsHttp(r) =>
            LET o == outcome[r][Len(outcome[r])]
                resp == recv[r][Len(recv[r])]
            IN  UnexpectedError(Steps(r)[o.stepIndex].op, resp) =>
                    /\ o.status = "Failed"
                    /\ o.code = resp.status

\* the process of run r ended on a fault outside the test function
HarnessFault(r) == exc[r] = "ImportError"

\* C20 as stated: a harness fault is the only failure that reaches the
\* process boundary: a process that ends with a non-zero exit code ended
\* on a harness fault, before any Step was executed.
C20_OnlyHarnessFaultEscapes ==
    \A r \in Active :
        (phase[r] = "done" /\ exitCode[r] # 0) =>
            HarnessFault(r) /\ order[r] = << >>

\* C20 amended: a harness fault outside the test function ends the
\* process with a non-zero exit code before any Step has been executed,
\* any request sent or any browser object created; it is not the only
\* failure that reaches the process boundary: a process ends with a
\* non-zero exit code also when a fatal Step failed or a close / stop of
\* the finally block raised, and in no other case.
C20_FaultBeforeAnyStep ==
    \A r \in Active :
        /\ HarnessFault(r) =>
              /\ phase[r] = "done"
              /\ exitCode[r] # 0
              /\ order[r] = << >> /\ outcome[r] = << >>
              /\ sent[r] = << >> /\ recv[r] = << >>
              /\ \A h \in open : h.owner # r
        /\ (phase[r] = "done" /\ exitCode[r] # 0) =>
              \/ HarnessFault(r)
              \/ \E i \in 1..NumSteps(r) : FatalFailed(r, i)
              \/ FinallyAborted(r)

\* a process that ended with exit code 1 on a failed import
C20_Witness ==
    \E r \in Active :
        /\ HarnessFault(r)
        /\ phase[r] = "done"
        /\ exitCode[r] = 1
        /\ order[r] = << >>

\* the Steps of run r that are not fatal and have a Failed outcome
NonFatalFailed(r) ==
    {i \in 1..NumSteps(r) : ~Steps(r)[i].fatal /\ HasStatus(r, i, "Failed")}

NoFatalFailure(r) ==
    /\ \A i \in 1..NumSteps(r) : ~FatalFailed(r, i)
    /\ ~FinallyAborted(r)

\* C21 as stated: a failed non-fatal Step does not stop the run, and the
\* run is nevertheless Failed.
C21_ContinuesButFailed ==
    \A r \in Active :
        (phase[r] = "done" /\ NonFatalFailed(r) # {}) =>
            /\ \A i \in NonFatalFailed(r) : (i + 1) \in Executed(r)
            /\ OverallStatus(r) = "Failed"

\* C21 amended: a failed non-fatal Step does not stop the run: control is
\* past it, no exception is pending because of it, and the Step after it
\* is executed, not Skipped; the run is not Failed because of it: a run
\* in which nothing else failed is Passed.
C21_ContinuesAndMayPass ==
    \A r \in Active :
        \A i \in NonFatalFailed(r) :
            /\ i < NumSteps(r)
            /\ pc[r] > i
            /\ (\A j \in 1..i : ~FatalFailed(r, j)) =>
                  (phase[r] \in {"body", "inflight"} => exc[r] = "none")
            /\ Ended(r) => (i + 1) \in Executed(r) /\ ~Skipped(r, i + 1)
            /\ (phase[r] = "done" /\ NoFatalFailure(r)) =>
                  /\ OverallStatus(r) = "Passed"
                  /\ Executed(r) = 1..NumSteps(r)

\* the document script is over and Passed with every Step executed,
\* although the load-state wait of the main page and one of a frame failed
C21_Witness ==
    \E r \in Active :
        /\ scen[r] = "TC008_Document"
        /\ phase[r] = "done"
        /\ {6, 7} \subseteq NonFatalFailed(r)
        /\ Executed(r) = 1..NumSteps(r)
        /\ OverallStatus(r) = "Passed"

\* one outcome for each executed Step that has finished, none for any
\* other Step, in increasing order of stepIndex
OneOutcomeEach(r) ==
    /\ \A i \in 1..NumSteps(r) :
          Cardinality(OutcomesOf(r, i)) =
              IF i \in Executed(r) /\ ~(phase[r] = "inflight" /\ pc[r] = i)
              THEN 1 ELSE 0
    /\ \A k, l \in DOMAIN outcome[r] :
          k < l => outcome[r][k].stepIndex < outcome[r][l].stepIndex

FatalFailures(r) == {i \in 1..NumSteps(r) : FatalFailed(r, i)}

\* C25: converse of the skip rule.  A Step is Skipped only if an earlier
\* Step of the same run failed fatally; no Step after a Skipped one was
\* executed or has an outcome; and a run has at most one fatal failure,
\* which is its last outcome.
C25_SkippedOnlyAfterFatal ==
    \A r \in Active :
        LET failed == FatalFailures(r)
            skipped == {j \in 1..NumSteps(r) : Skipped(r, j)}
        IN  /\ \A j \in skipped :
                  /\ \E i \in failed : i < j
                  /\ \A k \in DOMAIN order[r] : order[r][k] < j
                  /\ \A k \in DOMAIN outcome[r] : outcome[r][k].stepIndex < j
            /\ Cardinality(failed) <= 1
            /\ \A i \in failed : outcome[r][Len(outcome[r])].stepIndex = i

\* the proposal script is over: its second Step failed fatally after the
\* first passed, and the third is Skipped
C25_Witness ==
    \E r \in Active :
        /\ scen[r] = "TC006"
        /\ phase[r] = "done"
        /\ FatalFailures(r) = {2}
        /\ HasStatus(r, 1, "Passed")
        /\ Skipped(r, 3)

\* the call of run r that creates browser object v has returned
Acquired(r, v) ==
    \E k \in DOMAIN outcome[r] :
        /\ BoundBy(Steps(r)[outcome[r][k].stepIndex].op) = v
        /\ outcome[r][k].status = "Passed"

Held(r, v) == Handle(r, v) \in open

Released(r, v) == Acquired(r, v) /\ ~Held(r, v)

InBody(r) == phase[r] \in {"body", "inflight"}

\* C26: teardown of the UI scripts.  The finally block is entered, at its
\* first statement, whenever the try block is left, and the function is
\* left only from the finally block; only objects that were acquired
\* exist, and one is released only by its owner's finally block, by the
\* statement that names it; they are released in reverse order of
\* acquisition (the browser only when the context is no longer held, the
\* driver only when neither is); close or stop is never called on a local
\* that is still None.
C26_TeardownOrder ==
    /\ [](\A r \in Active :
             scen[r] \in UiScripts =>
                 /\ \A v \in {"pw", "browser", "context"} :
                       /\ Held(r, v) => Acquired(r, v)
                       /\ Released(r, v) => Ended(r)
                 /\ Released(r, "browser") => ~Held(r, "context")
                 /\ Released(r, "pw") =>
                       ~Held(r, "browser") /\ ~Held(r, "context")
                 /\ (phase[r] = "exit" /\ FinallyAborted(r)) =>
                       ctx[r][TeardownOf(scen[r])[tpc[r]].var] # NoHandle)
    /\ [][\A r \in Active :
              scen[r] \in UiScripts =>
                  /\ (InBody(r) /\ ~InBody(r)') =>
                        phase'[r] = "finally" /\ tpc'[r] = 1
                  /\ (phase'[r] = "exit" /\ phase[r] # "exit") =>
                        phase[r] = "finally"
                  /\ \A h \in open \ open' :
                        h.owner = r =>
                            /\ phase[r] = "finally"
                            /\ h.kind = TeardownOf(scen[r])[tpc[r]].var
                            /\ h = ctx[r][h.kind]]_vars

\* the manual-creation script is over: the driver and the browser were
\* acquired and released, the context was never created, and no close
\* raised
C26_Witness ==
    \E r \in Active :
        /\ scen[r] = "TC002_Manual"
        /\ phase[r] = "done"
        /\ Released(r, "pw") /\ Released(r, "browser")
        /\ ~Acquired(r, "context")
        /\ ~FinallyAborted(r)

\* the DELETE requests for an RFP that run r has issued
RfpDeletes(r) ==
    {k \in DOMAIN sent[r] :
        sent[r][k].method = "DELETE" /\ sent[r][k].path = "/api/rfps/{id}"}

\* the creation call returned 201 and a JSON object with the key "id"
HasId(resp) ==
    /\ resp.err = "none" /\ resp.status = 201
    /\ resp.fmt = "dict" /\ resp.id # "absent"

\* ... and the value under that key passes `if rfp_id:`
HasUsableId(resp) == HasId(resp) /\ Truthy(IdValue(resp))

CleansUp(r) == r \in Active /\ scen[r] \in {"TC004", "TC006"}

AllPassed(r) == \A k \in DOMAIN outcome[r] : outcome[r][k].status = "Passed"

\* the cleanup of the RFP: no DELETE is issued before the finally block,
\* there is never more than one, it names the id the creation call
\* returned, and the test has passed exactly if all its steps passed,
\* whether or not a cleanup DELETE raised
CleanupDiscipline(r) ==
    /\ RfpDeletes(r) # {} => Ended(r)
    /\ Cardinality(RfpDeletes(r)) <= 1
    /\ \A k \in RfpDeletes(r) : sent[r][k].id = IdValue(recv[r][1])
    /\ phase[r] \in {"exit", "done"} =>
          (OverallStatus(r) = "Passed" <=>
               AllPassed(r) /\ Len(outcome[r]) = NumSteps(r))

\* C27 (as stated): once the finally block of TC004 / TC006 is over, the
\* DELETE of the RFP has been issued exactly once if the creation call
\* returned 201 with an id, and not at all otherwise; a cleanup DELETE
\* that raises does not change the verdict.
C27_DeleteIffCreatedWithId ==
    \A r \in Runs :
        CleansUp(r) =>
            /\ CleanupDiscipline(r)
            /\ phase[r] \in {"exit", "done"} =>
                  Cardinality(RfpDeletes(r)) =
                      IF HasId(recv[r][1]) THEN 1 ELSE 0

\* C27 (amended): the same, with the DELETE issued exactly when the
\* creation call returned 201 with an id that is truthy.
C27_DeleteIffUsableId ==
    \A r \in Runs :
        CleansUp(r) =>
            /\ CleanupDiscipline(r)
            /\ phase[r] \in {"exit", "done"} =>
                  Cardinality(RfpDeletes(r)) =
                      IF HasUsableId(recv[r][1]) THEN 1 ELSE 0

\* TC004 is over and has passed although its cleanup DELETE raised
C27_Witness ==
    \E r \in Runs :
        /\ CleansUp(r) /\ scen[r] = "TC004"
        /\ phase[r] = "done"
        /\ Cardinality(RfpDeletes(r)) = 1
        /\ caught[r] # {}
        /\ OverallStatus(r) = "Passed"

\* the DELETE requests for a company profile that run r has issued
ProfileDeletes(r) ==
    {k \in DOMAIN sent[r] :
        /\ sent[r][k].method = "DELETE"
        /\ sent[r][k].path = "/api/company/{id}"}

\* the listing call of run r was answered with a non-empty list, from
\* which the profile id was taken
TookListedProfile(r) ==
    /\ Len(recv[r]) >= 2
    /\ EvalListProfiles(recv[r][2]) = Pass
    /\ ProfileListed(recv[r][2])

\* the third request of run r created a profile, and the answer was 201
\* with the id `id`
CreatedProfile(r, id) ==
    /\ Len(recv[r]) >= 3
    /\ sent[r][3] = Req("POST", "/api/company", "None", "None")
    /\ recv[r][3].err = "none" /\ recv[r][3].status = 201
    /\ recv[r][3].fmt = "dict"
    /\ IdValue(recv[r][3]) = id /\ Truthy(id)

\* C28: TC006 issues no DELETE for a profile it took from the listing; a
\* DELETE of a profile is issued only in the finally block, at most once,
\* and only for the id of a profile the same run created.
C28_DeletesOnlyOwnProfile ==
    \A r \in Active :
        scen[r] = "TC006" =>
            /\ TookListedProfile(r) => ProfileDeletes(r) = {}
            /\ ProfileDeletes(r) # {} => Ended(r)
            /\ Cardinality(ProfileDeletes(r)) <= 1
            /\ \A k \in ProfileDeletes(r) :
                   CreatedProfile(r, sent[r][k].id)

\* TC006 is over; it created a profile and has sent a DELETE for it
C28_Witness ==
    \E r \in Active :
        /\ scen[r] = "TC006"
        /\ phase[r] = "done"
        /\ ProfileDeletes(r) # {}
        /\ ~TookListedProfile(r)

\* the outcomes of run r that record a failure of a step with an op of ops
FailuresOf(r, ops) ==
    {k \in DOMAIN outcome[r] :
        /\ outcome[r][k].status = "Failed"
        /\ Steps(r)[outcome[r][k].stepIndex].op \in ops}

\* the finally block of a UI run was entered with a context to close: the
\* close was called, and either returned or raised
TeardownRan(r) ==
    Released(r, "context") \/ (FinallyAborted(r) /\ tpc[r] = 1)

\* C29: in a UI script a load-state wait (main page, frames) that times
\* out does not end the body: the exception is swallowed and the step
\* after it is the next one executed.  A later goto, click or fill that
\* fails is the last step executed: every step after it, the final
\* expectations included, is skipped, the verdict is Failed, and the
\* finally block runs.
C29_WaitsNonFatalActionsFatal ==
    \A r \in Active :
        scen[r] \in UiScripts =>
            /\ \A k \in FailuresOf(r, {"wait_main", "wait_frame"}) :
                   LET i == outcome[r][k].stepIndex IN
                   /\ i < NumSteps(r)
                   /\ IF k = Len(outcome[r])
                      THEN /\ InBody(r) /\ pc[r] = i + 1
                           /\ exc[r] = "none"
                      ELSE outcome[r][k + 1].stepIndex = i + 1
            /\ \A k \in FailuresOf(r, {"action"}) :
                   LET i == outcome[r][k].stepIndex IN
                   /\ k = Len(outcome[r])
                   /\ Ended(r)
                   /\ \A j \in (i + 1)..NumSteps(r) : Skipped(r, j)
                   /\ OverallStatus(r) = "Failed"
                   /\ phase[r] \in {"exit", "done"} => TeardownRan(r)
                   /\ phase[r] = "done" => exitCode[r] = 1

\* the portal-scan script is over: the wait for the main page timed out,
\* the script went on, a later action failed and the expectations after
\* it were not evaluated
C29_Witness ==
    \E r \in Active :
        /\ scen[r] = "TC007_Portal"
        /\ phase[r] = "done"
        /\ FailuresOf(r, {"wait_main"}) # {}
        /\ FailuresOf(r, {"action"}) # {}
        /\ Skipped(r, NumSteps(r))
        /\ Steps(r)[NumSteps(r)].op = "expect"
        /\ TeardownRan(r)

\* the scripts whose call is followed by raise_for_status in the same try
RaisesForStatus(r) ==
    r \in Active /\ scen[r] \in {"TC001", "TC005_get", "TC010"}

\* the response was a transport error or carried a 4xx / 5xx status
ErrorResponse(resp) == resp.err # "none" \/ resp.status >= 400

\* C30: in TC001, TC005 (detailed) and TC010 a transport error or a 4xx /
\* 5xx status fails the first step with "Request failed" and nothing
\* after it runs; the assertion on the status code fails exactly for a
\* status below 400 other than 200; and a test that has passed received a
\* 200 and passed every check after it.
C30_ErrorsEndInRequestFailed ==
    \A r \in Runs :
        (RaisesForStatus(r) /\ Len(outcome[r]) >= 1) =>
            LET resp == recv[r][1]
                first == outcome[r][1]
            IN  /\ first.stepIndex = 1
                /\ ErrorResponse(resp) =>
                      /\ first.status = "Failed"
                      /\ first.detail = "Request failed"
                      /\ Len(outcome[r]) = 1 /\ order[r] = << 1 >>
                      /\ Ended(r)
                /\ first.detail = "Request failed" => ErrorResponse(resp)
                /\ first.detail = "status code" <=>
                      ~ErrorResponse(resp) /\ resp.status # 200
                /\ (phase[r] = "done" /\ OverallStatus(r) = "Passed") =>
                      /\ resp.err = "none" /\ resp.status = 200
                      /\ AllPassed(r) /\ Len(outcome[r]) = NumSteps(r)

\* TC001 is over: the listing was answered 404, the test failed with
\* "Request failed" and no check of the body was made
C30_Witness ==
    \E r \in Runs :
        /\ RaisesForStatus(r) /\ scen[r] = "TC001"
        /\ phase[r] = "done"
        /\ Len(outcome[r]) = 1
        /\ recv[r][1].err = "none" /\ recv[r][1].status = 404
        /\ outcome[r][1].detail = "Request failed"
        /\ OverallStatus(r) = "Failed"

====
